---- MODULE Spec2Model ----
(***************************************************************************)
(* The constraint-to-quadratic-model compilers of the ZebraKet notebooks:  *)
(*   - build_setcover_bqm / solve_bqm        (SetCoverBQM.ipynb)           *)
(*   - the combined knapsack + set-cover DQM build cell (CombinedQUBO)     *)
(* Every loop of the two builds is an action that performs one iteration   *)
(* per step, writing into the model's linear and quadratic maps.           *)
(*                                                                         *)
(* Representation.                                                         *)
(*  - A variable label is the string the code concatenates, held as a      *)
(*    sequence of one-character strings (decimal digits for str(n)).       *)
(*  - A linear bias is a vector over the cases of the variable (index      *)
(*    p + 1 holds case p); a binary variable with bias b is <<0, b>>.      *)
(*  - A quadratic entry maps <<case_u, case_v>> to a bias; a BQM           *)
(*    coefficient c is the entry {<<1, 1>> |-> c}.                         *)
(*  - The set-cover BQM holds integers.  The combined DQM holds every      *)
(*    coefficient in units of one half (HalfUnits), because its penalty    *)
(*    weight max(values)*0.5 is a half-integer.                            *)
(***************************************************************************)
EXTENDS Integers, Sequences, FiniteSets, TLC

\* ------------------------------------------------------------------ bounds
MaxU == 2
MaxV == 2
MaxQty == 2
MaxRuns == 2
MaxReads == 2
MaxCapacity == 20

\* ------------------------------------------------------- program constants
A_bqm == 2
B_bqm == 1
A_dqm == 2000
B_dqm == 1000
HalfUnits == 2
B2 == 1

\* ------------------------------------------------------------ arithmetic
RECURSIVE Pow2(_)
Pow2(n) == IF n = 0 THEN 1 ELSE 2 * Pow2(n - 1)

RECURSIVE FloorLog2(_)
FloorLog2(n) == IF n < 2 THEN 0 ELSE 1 + FloorLog2(n \div 2)

RECURSIVE SeqMax(_)
SeqMax(s) == IF Len(s) = 1 THEN s[1]
             ELSE LET m == SeqMax(Tail(s)) IN IF s[1] > m THEN s[1] ELSE m

RECURSIVE SetToSeq(_)
SetToSeq(T) == IF T = {} THEN <<>>
               ELSE LET e == CHOOSE e \in T : TRUE IN <<e>> \o SetToSeq(T \ {e})

\* The index tuples of nested for loops, in execution order: the outer
\* index runs over a0 .. a0+na-1, the next over b0 .. b0+nb-1, and so on.
Nest2(a0, na, b0, nb) ==
    [n \in 1..(na * nb) |-> <<a0 + ((n - 1) \div nb), b0 + ((n - 1) % nb)>>]

Nest3(a0, na, b0, nb, c0, nc) ==
    [n \in 1..(na * nb * nc) |->
       <<a0 + ((n - 1) \div (nb * nc)), b0 + (((n - 1) \div nc) % nb), c0 + ((n - 1) % nc)>>]

Nest4(a0, na, b0, nb, c0, nc, d0, nd) ==
    [n \in 1..(na * nb * nc * nd) |->
       <<a0 + ((n - 1) \div (nb * nc * nd)), b0 + (((n - 1) \div (nc * nd)) % nb),
         c0 + (((n - 1) \div nd) % nc), d0 + ((n - 1) % nd)>>]

\* the inner loop starts one above the outer index: range(i + 1, n)
InnerAbove(t) == t[1] < t[2]

\* ---------------------------------------------------------------- labels
Digits == <<"0", "1", "2", "3", "4", "5", "6", "7", "8", "9">>

RECURSIVE str(_)
str(n) == IF n < 10 THEN <<Digits[n + 1]>>
          ELSE str(n \div 10) \o <<Digits[(n % 10) + 1]>>

XLabel(i) == <<"x", "_">> \o str(i)
YLabel(a, m) == <<"y", "_", "(">> \o str(a) \o <<",", " ">> \o str(m) \o <<")">>
\* variant: the two indices joined without the comma
ZLabelNoComma(k, s) == <<"z">> \o str(k) \o str(s)
ZLabel(k, s) == <<"z">> \o str(k) \o <<",">> \o str(s)
WLabel(k) == <<"w">> \o str(k)

\* ----------------------------------------------------------------- state
VARIABLES
    nb,               \* the notebook being run: "setcover" or "combined"
    U,                \* the universe / inventory, a list of elements
    S,                \* the candidate sets: V of build_setcover_bqm, S of the combined cell
    W_avg,            \* cost of each item at the suppliers that stock it
    weight_capacity,  \* Wbudget
    bound,            \* global list of per-item quantity bounds (the combined cell rebinds it)
    C,                \* H3 Lagrange multiplier of the combined cell
    w,                \* Lucas slack weights
    pc,               \* the loop the build is in
    idx,              \* iterations of that loop already executed
    vars,             \* model: label -> number of cases
    lin,              \* model: label -> vector of linear biases
    quad,             \* model: <<u, v>> -> (<<case_u, case_v>> -> bias)
    log,              \* every model call made by the current run, in program order
    run,              \* how many times the build has been started
    prev,             \* the model the previous run of the build produced
    response,         \* sample set returned by the sampler, in record order
    best_solution,    \* solve_bqm's first result
    best_energy,      \* solve_bqm's second result
    err,              \* the exception the last call ended with, "" if none
    value_season,     \* df1['value_season'] of the position whose team is built
    max_volume,       \* how many players of that position the formation asks for
    raw,              \* a raw assignment of the slack pieces
    decoded,          \* the value decoded from raw
    order             \* the calls of a reordered build

vars_all == <<nb, U, S, W_avg, weight_capacity, bound, C, w, pc, idx, vars, lin, quad,
              log, run, prev, response, best_solution, best_energy, err, value_season,
              max_volume, raw, decoded, order>>

NoValue == <<>>

\* --------------------------------------------------------- problem data
\* I[i][a] of both notebooks: 1 if U[a] is in supplier set i (i, a from 1)
I(i, a) == IF U[a] \in S[i] THEN 1 ELSE 0

RECURSIVE SumTo(_, _)
SumTo(n, f) == IF n = 0 THEN 0 ELSE f[n] + SumTo(n - 1, f)

\* sum(I[i])
SumI(i) == SumTo(Len(U), [a \in 1..Len(U) |-> I(i, a)])

\* np.dot(I[i], I[j])
DotI(i, j) == SumTo(Len(U), [a \in 1..Len(U) |-> I(i, a) * I(j, a)])

\* selling price V and cost table W of the generated grocery data: item k
\* (from 1) sells for ValueOf(k); a supplier that stocks it charges CostOf(k)
CostOf(k) == W_avg[k]
ValueOf(k) == IF k = 1 THEN 5 ELSE 4

values == [k \in 1..Len(U) |-> ValueOf(k)]

\* W[item][supplier]: the cost, or the sentinel -1 where the supplier does
\* not stock the item
weights == [k \in 1..Len(U) |->
              [s \in 1..Len(S) |-> IF U[k] \in S[s] THEN CostOf(k) ELSE -1]]

\* ------------------------------------------------------- the model store
Put(f, k, val) == IF k \in DOMAIN f THEN [f EXCEPT ![k] = val] ELSE f @@ (k :> val)

VecAdd(a, b) == [p \in 1..Len(a) |-> a[p] + b[p]]

Zeros(n) == [p \in 1..n |-> 0]

TransposeDict(d) == [cp \in {<<c[2], c[1]>> : c \in DOMAIN d} |-> d[<<cp[2], cp[1]>>]]

\* cases named in d replace the stored ones, the others stay
Override(old, d) == [cp \in DOMAIN old \cup DOMAIN d |->
                        IF cp \in DOMAIN d THEN d[cp] ELSE old[cp]]

Model == [vars |-> vars, lin |-> lin, quad |-> quad]

EmptyModel == [vars |-> <<>>, lin |-> <<>>, quad |-> <<>>]

\* the calls a build makes
BqmAddVariable(u, bias) ==
    [op |-> "bqm.add_variable", u |-> u, v |-> u, n |-> 2, lb |-> <<0, bias>>, qb |-> <<>>]
DqmAddVariable(n, u) ==
    [op |-> "dqm.add_variable", u |-> u, v |-> u, n |-> n, lb |-> Zeros(n), qb |-> <<>>]
SetLinear(u, biases) ==
    [op |-> "set_linear", u |-> u, v |-> u, n |-> Len(biases), lb |-> biases, qb |-> <<>>]
BqmQuadratic(u, v, bias) ==
    [op |-> "bqm.quadratic", u |-> u, v |-> v, n |-> 0, lb |-> <<>>,
     qb |-> [cp \in {<<1, 1>>} |-> bias]]
SetQuadratic(u, v, biases) ==
    [op |-> "set_quadratic", u |-> u, v |-> v, n |-> 0, lb |-> <<>>, qb |-> biases]
AddInteraction(u, v, bias) ==
    [op |-> "add_interaction", u |-> u, v |-> v, n |-> 0, lb |-> <<>>,
     qb |-> [cp \in {<<1, 1>>} |-> bias]]

IsQuadWrite(o) == o.op \in {"bqm.quadratic", "set_quadratic"}
IsLinWrite(o) == o.op \in {"bqm.add_variable", "set_linear"}
IsDeclare(o) == o.op \in {"bqm.add_variable", "dqm.add_variable"}

\* bqm.add_variable(v, bias): creates v, or adds bias to an existing v
ApplyBqmAddVariable(m, o) ==
    [m EXCEPT !.vars = Put(m.vars, o.u, 2),
              !.lin = Put(m.lin, o.u, IF o.u \in DOMAIN m.lin
                                      THEN VecAdd(m.lin[o.u], o.lb) ELSE o.lb)]

\* dqm.add_variable(num_cases, label): a new variable with zero biases
ApplyDqmAddVariable(m, o) ==
    [m EXCEPT !.vars = Put(m.vars, o.u, o.n), !.lin = Put(m.lin, o.u, o.lb)]

\* dqm.set_linear(v, biases): the biases of v become the given vector
ApplySetLinear(m, o) == [m EXCEPT !.lin = Put(m.lin, o.u, o.lb)]

\* bqm.quadratic[(u, v)] = bias and dqm.set_quadratic(u, v, biases): one
\* entry per unordered pair, whose named cases become the given biases
ApplySetQuadratic(m, o) ==
    IF <<o.v, o.u>> \in DOMAIN m.quad /\ o.u # o.v
    THEN [m EXCEPT !.quad = Put(m.quad, <<o.v, o.u>>,
                                Override(m.quad[<<o.v, o.u>>], TransposeDict(o.qb)))]
    ELSE [m EXCEPT !.quad = Put(m.quad, <<o.u, o.v>>,
                                Override(IF <<o.u, o.v>> \in DOMAIN m.quad
                                         THEN m.quad[<<o.u, o.v>>] ELSE <<>>, o.qb))]

\* bqm.add_interaction(u, v, bias): the bias is added to the entry of the
\* unordered pair, which is created at 0 if there is none
ApplyAddInteraction(m, o) ==
    LET k == IF <<o.v, o.u>> \in DOMAIN m.quad THEN <<o.v, o.u>> ELSE <<o.u, o.v>>
        old == IF k \in DOMAIN m.quad THEN m.quad[k][<<1, 1>>] ELSE 0
    IN [m EXCEPT !.quad = Put(m.quad, k, [cp \in {<<1, 1>>} |-> old + o.qb[<<1, 1>>]])]

Apply(m, o) ==
    CASE o.op = "bqm.add_variable" -> ApplyBqmAddVariable(m, o)
      [] o.op = "dqm.add_variable" -> ApplyDqmAddVariable(m, o)
      [] o.op = "set_linear" -> ApplySetLinear(m, o)
      [] o.op = "add_interaction" -> ApplyAddInteraction(m, o)
      [] OTHER -> ApplySetQuadratic(m, o)

\* the calls ops[lo..hi] made one after the other on m
RECURSIVE ApplyRange(_, _, _, _)
ApplyRange(m, ops, lo, hi) ==
    IF lo > hi THEN m
    ELSE IF lo = hi THEN Apply(m, ops[lo])
    ELSE LET mid == (lo + hi) \div 2
         IN ApplyRange(ApplyRange(m, ops, lo, mid), ops, mid + 1, hi)

ApplyAll(m, ops) == ApplyRange(m, ops, 1, Len(ops))

\* ------------------------------------------------- build_setcover_bqm
\* variant: the per-set cost B left out of the x biases
SetCoverXOpsNoCost ==
    [i \in 1..Len(S) |-> <<BqmAddVariable(XLabel(i), A_bqm * SumI(i))>>]

\* x = [bqm.add_variable('x_'+str(i+1), A*sum(I[i])+B) for i in range(0,len(V))]
SetCoverXOps ==
    [i \in 1..Len(S) |-> <<BqmAddVariable(XLabel(i), A_bqm * SumI(i) + B_bqm)>>]

\* y.append([bqm.add_variable('y_(a, m)', A*(m**2-1)) for m ...]) for a ...
SetCoverYOps ==
    LET t == Nest2(1, Len(U), 1, Len(S))
    IN [n \in 1..Len(t) |->
          <<BqmAddVariable(YLabel(t[n][1], t[n][2]), A_bqm * (t[n][2] * t[n][2] - 1))>>]

\* variant: the inner loop runs over every other set (j != i), so each pair
\* is written in both orders
SetCoverXXOpsBothOrders ==
    LET t == SelectSeq(Nest2(1, Len(S), 1, Len(S)), LAMBDA p : p[1] # p[2])
    IN [n \in 1..Len(t) |->
          <<BqmQuadratic(XLabel(t[n][1]), XLabel(t[n][2]),
                         2 * A_bqm * DotI(t[n][1], t[n][2]))>>]

\* x_i-x_j terms
SetCoverXXOps ==
    LET t == SelectSeq(Nest2(1, Len(S), 1, Len(S)), InnerAbove)
    IN [n \in 1..Len(t) |->
          <<BqmQuadratic(XLabel(t[n][1]), XLabel(t[n][2]),
                         2 * A_bqm * DotI(t[n][1], t[n][2]))>>]

\* variant: the one-hot part left out of the y-y cross terms (2*A*m*n)
SetCoverYYOpsNoOneHot ==
    LET t == SelectSeq(Nest3(1, Len(S), 1, Len(S), 1, Len(U)), InnerAbove)
    IN [k \in 1..Len(t) |->
          <<BqmQuadratic(YLabel(t[k][3], t[k][1]), YLabel(t[k][3], t[k][2]),
                         2 * A_bqm * (t[k][1] * t[k][2]))>>]

\* y_am - y_an terms
SetCoverYYOps ==
    LET t == SelectSeq(Nest3(1, Len(S), 1, Len(S), 1, Len(U)), InnerAbove)
    IN [k \in 1..Len(t) |->
          <<BqmQuadratic(YLabel(t[k][3], t[k][1]), YLabel(t[k][3], t[k][2]),
                         2 * A_bqm * (1 + t[k][1] * t[k][2]))>>]

\* variant: the count m left out of the x-y cross terms (-2*A*I)
SetCoverXYOpsUnweighted ==
    LET t == Nest3(1, Len(S), 1, Len(S), 1, Len(U))
    IN [k \in 1..Len(t) |->
          <<BqmQuadratic(XLabel(t[k][1]), YLabel(t[k][3], t[k][2]),
                         (0 - 2) * A_bqm * I(t[k][1], t[k][3]))>>]

\* x_i-y_am terms
SetCoverXYOps ==
    LET t == Nest3(1, Len(S), 1, Len(S), 1, Len(U))
    IN [k \in 1..Len(t) |->
          <<BqmQuadratic(XLabel(t[k][1]), YLabel(t[k][3], t[k][2]),
                         (0 - 2) * A_bqm * t[k][2] * I(t[k][1], t[k][3]))>>]

\* the list x returned by build_setcover_bqm
XList == [i \in 1..Len(S) |-> XLabel(i)]

\* ------------------------------------------ the combined DQM build cell
x_size == Len(values)

\* lagrange = max(values)*0.5, in half units
lagrange == (HalfUnits * SeqMax(values)) \div 2

\* variant: the last weight one short (capacity - 2**M)
LucasWeightsShort(capacity) ==
    LET M == FloorLog2(capacity)
    IN [n \in 1..M |-> Pow2(n - 1)] \o <<capacity - Pow2(M)>>

\* variant: one piece of weight 1 for each unit of the capacity
LucasWeightsUnary(capacity) == [n \in 1..capacity |-> 1]

\* variant: plain binary weights 2**0 .. 2**M, no closing weight
LucasWeightsBinary(capacity) ==
    LET M == FloorLog2(capacity)
    IN [n \in 1..(M + 1) |-> Pow2(n - 1)]

\* M = floor(log2(weight_capacity)); w = [2**n for n in range(M)];
\* w.append(weight_capacity + 1 - 2**M)
LucasWeights(capacity) ==
    LET M == FloorLog2(capacity)
    IN [n \in 1..M |-> Pow2(n - 1)] \o <<capacity + 1 - Pow2(M)>>

num_slack_variables == Len(w)

\* Python index ranges of the cell's loops
Items == 0..(x_size - 1)
Suppliers == 0..(Len(S) - 1)
Slacks == 0..(num_slack_variables - 1)
Wt(k, s) == weights[k + 1][s + 1]

\* for k, s: z.append(dqm.add_variable(bound[k], label='z'+str(k)+','+str(s)))
DeclZOps ==
    LET t == Nest2(0, x_size, 0, Len(S))
    IN [n \in 1..Len(t) |-> <<DqmAddVariable(bound[t[n][1] + 1], ZLabel(t[n][1], t[n][2]))>>]

\* for k: dqm.add_variable(2, label='w'+str(k))
DeclWOps == [n \in 1..num_slack_variables |-> <<DqmAddVariable(2, WLabel(n - 1))>>]

\* Hamiltonian zi-zi terms:
\* lagrange * weights[k][s]**2 * pieces**2 + (C-values[k])*pieces
LinZOps ==
    LET t == Nest2(0, x_size, 0, Len(S))
    IN [n \in 1..Len(t) |->
          LET k == t[n][1]
              s == t[n][2]
          IN <<SetLinear(ZLabel(k, s),
                         [q \in 1..bound[k + 1] |->
                            lagrange * Wt(k, s) * Wt(k, s) * (q - 1) * (q - 1)
                            + HalfUnits * (C - values[k + 1]) * (q - 1)])>>]

\* Hamiltonian xi-xj terms: for i, for j in range(i + 1, x_size), for s1, s2
QuadZZOps ==
    LET t == SelectSeq(Nest4(0, x_size, 0, x_size, 0, Len(S), 0, Len(S)), InnerAbove)
    IN [n \in 1..Len(t) |->
          LET i == t[n][1]
              j == t[n][2]
              s1 == t[n][3]
              s2 == t[n][4]
          IN <<SetQuadratic(ZLabel(i, s1), ZLabel(j, s2),
                            [cp \in (0..(bound[i + 1] - 1)) \X (0..(bound[j + 1] - 1)) |->
                               2 * lagrange * Wt(i, s1) * Wt(j, s2) * cp[1] * cp[2]])>>]

\* variant: the slack weight not squared (lagrange * w[k])
LinWOpsUnsquared ==
    [n \in 1..num_slack_variables |->
       <<SetLinear(WLabel(n - 1), <<0, lagrange * w[n]>>)>>]

\* Hamiltonian y-y terms: lagrange*np.array([0,1])*(w[k]**2)
LinWOps ==
    [n \in 1..num_slack_variables |->
       <<SetLinear(WLabel(n - 1), <<0, lagrange * w[n] * w[n]>>)>>]

\* variant: the inner loop starts at the outer index (range(i, n)), so a
\* piece is also paired with itself
QuadWWOpsWithSelf ==
    LET t == SelectSeq(Nest2(0, num_slack_variables, 0, num_slack_variables),
                       LAMBDA p : p[1] <= p[2])
    IN [n \in 1..Len(t) |->
          <<SetQuadratic(WLabel(t[n][1]), WLabel(t[n][2]),
                         [cp \in {<<1, 1>>} |-> 2 * lagrange * w[t[n][1] + 1] * w[t[n][2] + 1]])>>]

\* Hamiltonian yi-yj terms: {(1,1): 2 * lagrange * w[i] * w[j]}
QuadWWOps ==
    LET t == SelectSeq(Nest2(0, num_slack_variables, 0, num_slack_variables), InnerAbove)
    IN [n \in 1..Len(t) |->
          <<SetQuadratic(WLabel(t[n][1]), WLabel(t[n][2]),
                         [cp \in {<<1, 1>>} |-> 2 * lagrange * w[t[n][1] + 1] * w[t[n][2] + 1]])>>]

\* Hamiltonian x-y terms: (piece1, 1): -2 * lagrange * weights[i][s] * w[j]*piece1
QuadZWOps ==
    LET t == Nest3(0, x_size, 0, Len(S), 0, num_slack_variables)
    IN [n \in 1..Len(t) |->
          LET i == t[n][1]
              s == t[n][2]
              j == t[n][3]
          IN <<SetQuadratic(ZLabel(i, s), WLabel(j),
                            [cp \in (0..(bound[i + 1] - 1)) \X {1} |->
                               (0 - 2) * lagrange * Wt(i, s) * w[j + 1] * cp[1]])>>]

\* x linear terms: add_variable(2, 'x_'+str(i+1)); set_linear(.., (A*sum(I[i])+B)*[0,1])
CombXOps ==
    [i \in 1..Len(S) |->
       <<DqmAddVariable(2, XLabel(i)),
         SetLinear(XLabel(i), <<0, HalfUnits * (A_dqm * SumI(i) + B_dqm)>>)>>]

\* y_am linear terms: add_variable(2, 'y_(a, m)'); set_linear(.., A*(m**2-1)*[0,1])
CombYOps ==
    LET t == Nest2(1, Len(U), 1, Len(S))
    IN [n \in 1..Len(t) |->
          <<DqmAddVariable(2, YLabel(t[n][1], t[n][2])),
            SetLinear(YLabel(t[n][1], t[n][2]),
                      <<0, HalfUnits * A_dqm * (t[n][2] * t[n][2] - 1)>>)>>]

\* x_i-x_j terms
CombXXOps ==
    LET t == SelectSeq(Nest2(1, Len(S), 1, Len(S)), InnerAbove)
    IN [n \in 1..Len(t) |->
          <<SetQuadratic(XLabel(t[n][1]), XLabel(t[n][2]),
                         [cp \in {<<1, 1>>} |-> HalfUnits * 2 * A_dqm * DotI(t[n][1], t[n][2])])>>]

\* y_am - y_an terms
CombYYOps ==
    LET t == SelectSeq(Nest3(1, Len(S), 1, Len(S), 1, Len(U)), InnerAbove)
    IN [k \in 1..Len(t) |->
          <<SetQuadratic(YLabel(t[k][3], t[k][1]), YLabel(t[k][3], t[k][2]),
                         [cp \in {<<1, 1>>} |-> HalfUnits * 2 * A_dqm * (1 + t[k][1] * t[k][2])])>>]

\* x_i-y_am terms
CombXYOps ==
    LET t == Nest3(1, Len(S), 1, Len(S), 1, Len(U))
    IN [k \in 1..Len(t) |->
          <<SetQuadratic(XLabel(t[k][1]), YLabel(t[k][3], t[k][2]),
                         [cp \in {<<1, 1>>} |->
                            HalfUnits * (0 - 2) * A_dqm * t[k][2] * I(t[k][1], t[k][3])])>>]

\* variant: the coupling scaled by the slack weight of the inner loop
H3OpsPerSlack ==
    LET t == Nest3(0, x_size, 1, Len(S) - 1, 0, num_slack_variables)
    IN [n \in 1..Len(t) |->
          LET i == t[n][1]
              s == t[n][2]
              j == t[n][3]
          IN <<SetQuadratic(ZLabel(i, s), XLabel(s + 1),
                            [cp \in (0..(bound[i + 1] - 1)) \X {1} |->
                               HalfUnits * (0 - C) * cp[1] * w[j + 1]])>>]

\* Hamiltonian x-z terms in H3: for i, for s in range(1,len(S)), for j in
\* range(num_slack_variables): (piece1, 1): -C * piece1
H3Ops ==
    LET t == Nest3(0, x_size, 1, Len(S) - 1, 0, num_slack_variables)
    IN [n \in 1..Len(t) |->
          LET i == t[n][1]
              s == t[n][2]
          IN <<SetQuadratic(ZLabel(i, s), XLabel(s + 1),
                            [cp \in (0..(bound[i + 1] - 1)) \X {1} |->
                               HalfUnits * (0 - C) * cp[1]])>>]

\* the list z of the cell, in append order
ZList == LET t == Nest2(0, x_size, 0, Len(S))
         IN [n \in 1..Len(t) |-> ZLabel(t[n][1], t[n][2])]

\* ---------------------------------------------------------------- energy
RECURSIVE LinEnergy(_, _, _, _)
LinEnergy(m, keys, n, sample) ==
    IF n = 0 THEN 0
    ELSE m.lin[keys[n]][sample[keys[n]] + 1] + LinEnergy(m, keys, n - 1, sample)

RECURSIVE QuadEnergy(_, _, _, _)
QuadEnergy(m, keys, n, sample) ==
    IF n = 0 THEN 0
    ELSE LET k == keys[n]
             cp == <<sample[k[1]], sample[k[2]]>>
         IN (IF cp \in DOMAIN m.quad[k] THEN m.quad[k][cp] ELSE 0)
            + QuadEnergy(m, keys, n - 1, sample)

\* the energy the model m gives the assignment sample (label -> case)
EnergyOn(m, lkeys, qkeys, sample) ==
    LinEnergy(m, lkeys, Len(lkeys), sample) + QuadEnergy(m, qkeys, Len(qkeys), sample)

Energy(m, sample) ==
    EnergyOn(m, SetToSeq(DOMAIN m.lin), SetToSeq(DOMAIN m.quad), sample)

RECURSIVE AssignOver(_, _)
AssignOver(m, keys) ==
    IF keys = <<>> THEN {<<>>}
    ELSE {Put(f, Head(keys), c) : f \in AssignOver(m, Tail(keys)),
                                  c \in 0..(m.vars[Head(keys)] - 1)}

\* every assignment of the labels in ls: each takes one of its cases
AssignmentsOf(m, ls) == AssignOver(m, SetToSeq(ls))

\* the restriction of model m to the variables in ls
Restrict(m, ls) ==
    [vars |-> [l \in ls |-> m.vars[l]],
     lin |-> [l \in ls \cap DOMAIN m.lin |-> m.lin[l]],
     quad |-> [k \in {k \in DOMAIN m.quad : k[1] \in ls /\ k[2] \in ls} |-> m.quad[k]]]

\* ------------------------------------------------------------- solve_bqm
\* what a sampler may hand back: assignments that give all x variables one
\* value and all other variables one value
SamplePool == {[l \in DOMAIN vars |-> IF l[1] = "x" THEN bx ELSE by] :
                 bx \in 0..1, by \in 0..1}

\* response.record.energy
Energies(resp) == [n \in 1..Len(resp) |-> Energy(Model, resp[n])]

\* response.first: the record of lowest energy, the earliest of equals
First(resp) ==
    LET e == Energies(resp)
        n == CHOOSE n \in 1..Len(resp) :
                 /\ \A k \in 1..Len(resp) : e[n] <= e[k]
                 /\ \A k \in 1..(n - 1) : e[k] > e[n]
    IN resp[n]

\* ---------------------------------------------------------------- actions
\* Wbudget, and the H3 multiplier C: the cell sets C = 0 as a first guess
\* of a multiplier the notebook leaves to be tuned, so C ranges over a zero
\* and a non-zero value
Budgets == {3, 10}
LinkWeights == {0, 1}

\* W_avg: the first item costs 6, every other item 5
GroceryCosts(n) == [k \in 1..n |-> IF k = 1 THEN 6 ELSE 5]

Universes == {[a \in 1..n |-> a] : n \in 1..MaxU}
Families(u) == UNION {[1..n -> SUBSET {u[a] : a \in 1..Len(u)}] : n \in 1..MaxV}

BlankRun ==
    /\ w = <<>>
    /\ pc = "idle"
    /\ idx = 0
    /\ vars = <<>>
    /\ lin = <<>>
    /\ quad = <<>>
    /\ log = <<>>
    /\ run = 0
    /\ prev = EmptyModel
    /\ response = <<>>
    /\ best_solution = <<>>
    /\ best_energy = 0
    /\ err = ""
    /\ raw = <<>>
    /\ decoded = -1
    /\ order = <<>>

\* nothing of the team notebook is in use
Blank ==
    /\ BlankRun
    /\ value_season = <<>>
    /\ max_volume = 0

Init ==
    /\ nb \in {"setcover", "combined"}
    /\ U \in Universes
    /\ S \in Families(U)
    /\ IF nb = "combined"
       THEN /\ W_avg = GroceryCosts(Len(U))
            /\ weight_capacity \in Budgets
            /\ \E q \in 1..MaxQty : bound = [k \in 1..Len(U) |-> q]
            /\ C \in LinkWeights
       ELSE /\ W_avg = <<>>
            /\ weight_capacity = 0
            /\ bound = <<>>
            /\ C = 0
    /\ Blank

data == <<nb, U, S, W_avg, weight_capacity, C, value_season, max_volume>>
solved == <<response, best_solution, best_energy, err>>
enc == <<raw, decoded, order>>

\* bqm,x = build_setcover_bqm(U, V): a fresh BinaryQuadraticModel
BuildSetcoverBqm ==
    /\ nb = "setcover"
    /\ pc \in {"idle", "built", "solved"}
    /\ run < MaxRuns
    /\ run' = run + 1
    /\ prev' = Model
    /\ vars' = <<>> /\ lin' = <<>> /\ quad' = <<>> /\ log' = <<>>
    /\ pc' = "sc_x" /\ idx' = 0
    /\ response' = <<>> /\ best_solution' = <<>> /\ best_energy' = 0 /\ err' = ""
    /\ UNCHANGED <<data, bound, w, enc>>

\* the head of the combined cell: bound = [b+1 for b in bound], the Lucas
\* slack weights, dqm = DiscreteQuadraticModel()
RunCombinedCell ==
    /\ nb = "combined"
    /\ pc \in {"idle", "built", "aborted"}
    /\ run < MaxRuns
    /\ run' = run + 1
    /\ bound' = [k \in 1..Len(bound) |-> bound[k] + 1]
    /\ IF weight_capacity >= 1
       THEN /\ prev' = Model
            /\ w' = LucasWeights(weight_capacity)
            /\ vars' = <<>> /\ lin' = <<>> /\ quad' = <<>> /\ log' = <<>>
            /\ pc' = "ks_decl_z" /\ idx' = 0
            /\ response' = <<>> /\ best_solution' = <<>> /\ best_energy' = 0
            /\ err' = ""
       ELSE \* math.log2 of a number <= 0 raises ValueError (math domain
            \* error): the cell stops at M = floor(log2(weight_capacity))
            /\ err' = "ValueError"
            /\ pc' = "aborted"
            /\ UNCHANGED <<prev, w, vars, lin, quad, log, idx, response,
                           best_solution, best_energy>>
    /\ UNCHANGED <<data, enc>>

\* one iteration of the loop p, or its exit to the loop nxt
Loop(p, ops, nxt) ==
    /\ pc = p
    /\ IF idx < Len(ops)
       THEN LET m == ApplyAll(Model, ops[idx + 1])
            IN /\ vars' = m.vars
               /\ lin' = m.lin
               /\ quad' = m.quad
               /\ log' = log \o ops[idx + 1]
               /\ idx' = idx + 1
               /\ pc' = pc
       ELSE /\ pc' = nxt
            /\ idx' = 0
            /\ UNCHANGED <<vars, lin, quad, log>>
    /\ UNCHANGED <<data, bound, w, run, prev, solved, enc>>

SetCoverX == Loop("sc_x", SetCoverXOps, "sc_y")
SetCoverY == Loop("sc_y", SetCoverYOps, "sc_xx")
SetCoverXX == Loop("sc_xx", SetCoverXXOps, "sc_yy")
SetCoverYY == Loop("sc_yy", SetCoverYYOps, "sc_xy")
SetCoverXY == Loop("sc_xy", SetCoverXYOps, "built")

DeclZ == Loop("ks_decl_z", DeclZOps, "ks_decl_w")
DeclW == Loop("ks_decl_w", DeclWOps, "ks_lin_z")
LinZ == Loop("ks_lin_z", LinZOps, "ks_quad_zz")
QuadZZ == Loop("ks_quad_zz", QuadZZOps, "ks_lin_w")
LinW == Loop("ks_lin_w", LinWOps, "ks_quad_ww")
QuadWW == Loop("ks_quad_ww", QuadWWOps, "ks_quad_zw")
QuadZW == Loop("ks_quad_zw", QuadZWOps, "cs_x")
CombX == Loop("cs_x", CombXOps, "cs_y")
CombY == Loop("cs_y", CombYOps, "cs_xx")
CombXX == Loop("cs_xx", CombXXOps, "cs_yy")
CombYY == Loop("cs_yy", CombYYOps, "cs_xy")
CombXY == Loop("cs_xy", CombXYOps, "h3")
H3 == Loop("h3", H3Ops, "built")

\* variant: a solve that rescales the model it is given in place (every
\* coefficient doubled) before sampling
SolveBqmRescaling ==
    /\ nb = "setcover"
    /\ pc \in {"built", "solved"}
    /\ \E n \in 1..MaxReads : \E resp \in [1..n -> SamplePool] :
          /\ response' = resp
          /\ best_energy' = 2 * Energies(resp)[1]
          /\ best_solution' = [i \in 1..Len(XList) |-> First(resp)[XList[i]]]
    /\ err' = ""
    /\ pc' = "solved"
    /\ lin' = [l \in DOMAIN lin |-> [p \in 1..Len(lin[l]) |-> 2 * lin[l][p]]]
    /\ quad' = [k \in DOMAIN quad |-> [cp \in DOMAIN quad[k] |-> 2 * quad[k][cp]]]
    /\ UNCHANGED <<data, bound, w, idx, vars, log, run, prev, enc>>

\* solve_bqm(bqm, x, sampler): the reported energy is energies[0], the
\* reported solution is response.first.sample read at the labels of x
SolveBqm ==
    /\ nb = "setcover"
    /\ pc \in {"built", "solved"}
    /\ \E n \in 1..MaxReads : \E resp \in [1..n -> SamplePool] :
          /\ response' = resp
          /\ best_energy' = Energies(resp)[1]
          /\ best_solution' = [i \in 1..Len(XList) |-> First(resp)[XList[i]]]
    /\ err' = ""
    /\ pc' = "solved"
    /\ UNCHANGED <<data, bound, w, idx, vars, lin, quad, log, run, prev, enc>>

Next ==
    \/ BuildSetcoverBqm
    \/ SetCoverX
    \/ SetCoverY
    \/ SetCoverXX
    \/ SetCoverYY
    \/ SetCoverXY
    \/ SolveBqm
    \/ RunCombinedCell
    \/ DeclZ
    \/ DeclW
    \/ LinZ
    \/ QuadZZ
    \/ LinW
    \/ QuadWW
    \/ QuadZW
    \/ CombX
    \/ CombY
    \/ CombXX
    \/ CombYY
    \/ CombXY
    \/ H3

Spec == Init /\ [][Next]_vars_all

\* ------------------------------------------- the set-cover notebook alone
InitSetCover == Init /\ nb = "setcover"

NextSetCover ==
    \/ BuildSetcoverBqm
    \/ SetCoverX
    \/ SetCoverY
    \/ SetCoverXX
    \/ SetCoverYY
    \/ SetCoverXY
    \/ SolveBqm

SpecSetCover == InitSetCover /\ [][NextSetCover]_vars_all

\* ------------------------------------------------ the slack encoding alone
\* the weighted sum a raw assignment of the slack pieces stands for
SlackValue(weights_, bits) == SumTo(Len(weights_), [k \in 1..Len(weights_) |-> weights_[k] * bits[k]])

InitEnc ==
    /\ nb = "combined"
    /\ U = <<1>>
    /\ S = <<{1}>>
    /\ W_avg = GroceryCosts(1)
    /\ weight_capacity \in 1..MaxCapacity
    /\ bound = <<1>>
    /\ C = 0
    /\ Blank

\* a solver's raw values for the slack pieces w0, w1, ...
AssignSlack ==
    /\ w # <<>>
    /\ raw' \in [1..Len(w) -> 0..1]
    /\ decoded' = -1
    /\ UNCHANGED <<data, bound, w, pc, idx, vars, lin, quad, log, run, prev, solved, order>>

\* the value of the slack: the sum of weight * piece value
DecodeSlack ==
    /\ raw # <<>>
    /\ decoded' = SlackValue(w, raw)
    /\ UNCHANGED <<data, bound, w, pc, idx, vars, lin, quad, log, run, prev, solved, raw, order>>

NextEnc ==
    \/ RunCombinedCell
    \/ AssignSlack
    \/ DecodeSlack

SpecEnc == InitEnc /\ [][NextEnc]_vars_all

\* ================================================================ claims
SetMin(T) == CHOOSE x \in T : \A y \in T : x <= y

\* the assignments of the variables ls at which model m is lowest
Minimisers(m, ls) ==
    LET r == Restrict(m, ls)
        lk == SetToSeq(DOMAIN r.lin)
        qk == SetToSeq(DOMAIN r.quad)
        as == AssignmentsOf(r, ls)
        lo == SetMin({EnergyOn(r, lk, qk, a) : a \in as})
    IN {a \in as : EnergyOn(r, lk, qk, a) = lo}

\* ---- C2
\* C2: for every capacity B >= 1 the weighted sums of the 0/1 assignments of
\* the Lucas slack pieces are exactly the integers 0..B.
SlackSums == {SlackValue(w, bits) : bits \in [1..Len(w) -> 0..1]}

C2_SlackSpansRange ==
    w # <<>> => /\ Len(w) = FloorLog2(weight_capacity) + 1
                /\ SlackSums = 0..weight_capacity

C2_Witness == w # <<>> /\ weight_capacity = 11 /\ decoded = 11

\* ---- C3
Covers(sel) == \A a \in 1..Len(U) : \E i \in sel : U[a] \in S[i]

MinCoverSize ==
    SetMin({Cardinality(sel) : sel \in {t \in SUBSET (1..Len(S)) : Covers(t)}})

Selected(sample) == {i \in 1..Len(S) : sample[XLabel(i)] = 1}

SetCoverBuilt == nb = "setcover" /\ pc = "built"

\* C3: when some sub-family covers U, every minimum-energy assignment of
\* the built set-cover model selects a cover of the fewest possible sets.
C3_MinEnergyIsMinCover ==
    (SetCoverBuilt /\ Covers(1..Len(S))) =>
        \A a \in Minimisers(Model, DOMAIN vars) :
            Covers(Selected(a)) /\ Cardinality(Selected(a)) = MinCoverSize

\* the literal scenario: U = {a, b}, V = [{a}, {a, b}] selects only {a, b}
C3_Witness ==
    /\ SetCoverBuilt
    /\ U = <<1, 2>>
    /\ S = <<{1}, {1, 2}>>
    /\ \A a \in Minimisers(Model, DOMAIN vars) : Selected(a) = {2}

\* ---- C1
ZLabels == {ZLabel(k, s) : k \in Items, s \in Suppliers}
WLabels == {WLabel(j) : j \in Slacks}

\* the knapsack part of the combined cell has been written in full
KnapsackBuilt == nb = "combined" /\ pc = "cs_x" /\ idx = 0

\* sum over item k, supplier s of f[k][s], and sum over slack piece j
ZSum(f) == SumTo(x_size, [k \in 1..x_size |-> SumTo(Len(S), f[k])])

\* total cost sum W[k][s] * z[k,s] of an assignment, as the cell weighs it
CostOfPlan(a) ==
    ZSum([k \in 1..x_size |-> [s \in 1..Len(S) |-> weights[k][s] * a[ZLabel(k - 1, s - 1)]]])

\* value of the slack pieces of an assignment
SlackOf(a) == SumTo(Len(w), [j \in 1..Len(w) |-> w[j] * a[WLabel(j - 1)]])

\* the objective the z biases carry next to the penalty: (C - values[k]) * z
ObjectiveOf(a) ==
    ZSum([k \in 1..x_size |->
            [s \in 1..Len(S) |-> HalfUnits * (C - values[k]) * a[ZLabel(k - 1, s - 1)]]])

\* the budget block: lagrange * (slack - cost)^2, target 0
BudgetPenalty(a) == lagrange * (SlackOf(a) - CostOfPlan(a)) * (SlackOf(a) - CostOfPlan(a))

KnapsackModel == Restrict(Model, ZLabels \cup WLabels)

\* C1 (budget-slack block of the combined model): at every assignment of
\* the z and w pieces the written coefficients, less the objective, equal
\* lagrange * (sum w_j*slack_j - sum W*z)^2 exactly.
C1_BudgetBlockExact ==
    KnapsackBuilt =>
        \A a \in AssignmentsOf(KnapsackModel, ZLabels \cup WLabels) :
            Energy(KnapsackModel, a) - ObjectiveOf(a) = BudgetPenalty(a)

\* the same statement where every item has a single supplier
C1_OneSupplierExact == Len(S) = 1 => C1_BudgetBlockExact

\* ---- C4
\* budget 10, items costing 6 and 5 with values 5 and 4, one supplier that
\* stocks both, at most one unit of each
KnapsackScenario ==
    /\ KnapsackBuilt
    /\ run = 1
    /\ U = <<1, 2>>
    /\ S = <<{1, 2}>>
    /\ weight_capacity = 10
    /\ bound = <<2, 2>>
    /\ C = 0

\* C4: in that knapsack every minimum-energy assignment of the compiled
\* knapsack model buys the item costing 6 and not the item costing 5.
C4_PicksItemCostingSix ==
    KnapsackScenario =>
        \A a \in Minimisers(Model, ZLabels \cup WLabels) :
            a[ZLabel(0, 0)] = 1 /\ a[ZLabel(1, 0)] = 0

\* ---- C5
\* the biases the calls of the log contribute to case q of label l
RECURSIVE LinContrib(_, _, _)
LinContrib(ops, l, q) ==
    IF ops = <<>> THEN 0
    ELSE (IF Head(ops).u = l /\ Head(ops).lb # <<>> THEN Head(ops).lb[q] ELSE 0)
         + LinContrib(Tail(ops), l, q)

\* the biases the calls of the log contribute to case pair cp of the pair (u, v)
RECURSIVE QuadContrib(_, _, _, _)
QuadContrib(ops, u, v, cp) ==
    LET o == Head(ops)
        rcp == <<cp[2], cp[1]>>
    IN IF ops = <<>> THEN 0
       ELSE (IF IsQuadWrite(o) /\ o.u = u /\ o.v = v /\ cp \in DOMAIN o.qb THEN o.qb[cp]
             ELSE IF IsQuadWrite(o) /\ o.u = v /\ o.v = u /\ rcp \in DOMAIN o.qb THEN o.qb[rcp]
             ELSE 0)
            + QuadContrib(Tail(ops), u, v, cp)

C7_ReportsLowestWithItsEnergy ==
    (nb = "setcover" /\ pc = "solved") =>
        /\ best_energy = Energy(Model, First(response))
        /\ \A n \in 1..Len(response) : best_energy <= Energy(Model, response[n])
        /\ best_solution = [i \in 1..Len(S) |-> First(response)[XLabel(i)]]

\* ---- C8
\* C8: every integer v of 0..B is represented by some assignment of the
\* slack pieces, and decoding that assignment (sum of weight * piece value)
\* gives back v.
C8_EveryValueDecodes ==
    w # <<>> =>
        \A v \in 0..weight_capacity :
            \E bits \in [1..Len(w) -> 0..1] : SlackValue(w, bits) = v

C8_Witness ==
    /\ weight_capacity = 6
    /\ w = <<1, 2, 3>>
    /\ raw = <<0, 1, 1>>
    /\ decoded = 5

\* ---- C9
\* C9: a second compilation of the same problem gives the same variable
\* keys, domain sizes and coefficients as the first.
C9_SecondBuildSameModel ==
    (pc = "built" /\ run >= 2) => Model = prev

\* ---- C10
\* C10: every penalty weight strictly exceeds the objective magnitude it has
\* to dominate: A > B > 0 for set cover, lagrange > B2 * max(V) for the knapsack.
C10_PenaltiesDominate ==
    /\ nb = "setcover" => (A_bqm > B_bqm /\ B_bqm > 0)
    /\ (nb = "combined" /\ run >= 1) =>
          /\ A_dqm > B_dqm /\ B_dqm > 0
          /\ lagrange > HalfUnits * B2 * SeqMax(values)

\* ---- C6
IsDqmDeclare(o) == o.op = "dqm.add_variable"
IsCoefficientWrite(o) == o.op # "dqm.add_variable"

\* seq with its i-th element moved behind all others
MoveToEnd(seq, i) == [n \in 1..Len(seq) |->
                        IF n < i THEN seq[n] ELSE IF n < Len(seq) THEN seq[n + 1] ELSE seq[i]]

\* The finished build is made again with its coefficient writes reordered:
\* the variables are declared, then the writes the build made are repeated
\* with one of them moved behind all others.  A write either replaces the
\* cases it names or adds to them, so the final map depends on the order
\* only through which write to a key comes last; making each write in turn
\* the last one therefore decides the question for every permutation.
Reorder ==
    /\ pc = "built"
    /\ \E i \in 1..Len(SelectSeq(log, IsCoefficientWrite)) :
          order' = SelectSeq(log, IsDqmDeclare)
                   \o MoveToEnd(SelectSeq(log, IsCoefficientWrite), i)
    /\ prev' = Model
    /\ vars' = <<>> /\ lin' = <<>> /\ quad' = <<>> /\ log' = <<>>
    /\ pc' = "replay" /\ idx' = 0
    /\ UNCHANGED <<data, bound, w, run, solved, raw, decoded>>

\* the next call of the reordered build
Replay ==
    /\ pc = "replay"
    /\ IF idx < Len(order)
       THEN LET m == Apply(Model, order[idx + 1])
            IN /\ vars' = m.vars
               /\ lin' = m.lin
               /\ quad' = m.quad
               /\ log' = Append(log, order[idx + 1])
               /\ idx' = idx + 1
               /\ pc' = pc
       ELSE /\ pc' = "replayed"
            /\ idx' = 0
            /\ UNCHANGED <<vars, lin, quad, log>>
    /\ UNCHANGED <<data, bound, w, run, prev, solved, enc, order>>

\* the problems of Init whose combined build has two slack pieces and
\* quantities 0..1
InitPerm ==
    /\ Init
    /\ nb = "combined" => (weight_capacity = 3 /\ \A k \in 1..Len(bound) : bound[k] = 1)

NextPerm ==
    \/ BuildSetcoverBqm
    \/ SetCoverX
    \/ SetCoverY
    \/ SetCoverXX
    \/ SetCoverYY
    \/ SetCoverXY
    \/ RunCombinedCell
    \/ DeclZ
    \/ DeclW
    \/ LinZ
    \/ QuadZZ
    \/ LinW
    \/ QuadWW
    \/ QuadZW
    \/ CombX
    \/ CombY
    \/ CombXX
    \/ CombYY
    \/ CombXY
    \/ H3
    \/ Reorder
    \/ Replay

SpecPerm == InitPerm /\ [][NextPerm]_vars_all

\* C6: whatever the order of the coefficient writes, the compilation ends
\* with the coefficient map that the program order gives.
C6_OrderIndependent ==
    pc = "replayed" => (lin = prev.lin /\ quad = prev.quad)

\* a reordered combined build with a non-zero H3 weight and two slack
\* pieces, whose H3 loop writes each z-x pair twice
C6_Witness ==
    /\ pc = "replayed"
    /\ nb = "combined"
    /\ C = 1
    /\ Len(S) = 2
    /\ Len(w) = 2
    /\ log[Len(log)].u = ZLabel(0, 1)
    /\ log[Len(log)].v = XLabel(2)
    /\ <<ZLabel(0, 1), XLabel(2)>> \in DOMAIN quad

\* ---- C11
\* the number of selected suppliers that stock item a
StockCount(smp, a) == Cardinality({i \in Selected(smp) : U[a] \in S[i]})

\* for every item exactly one y[item, m] is 1, and that m is the number of
\* selected suppliers stocking the item
CountsConsistent(smp) ==
    \A a \in 1..Len(U) :
        /\ Cardinality({m \in 1..Len(S) : smp[YLabel(a, m)] = 1}) = 1
        /\ \A m \in 1..Len(S) : smp[YLabel(a, m)] = 1 => m = StockCount(smp, a)

\* the energy the built model gives an assignment, without the B * sum x term
SetCoverPenalty(smp) == Energy(Model, smp) - B_bqm * Cardinality(Selected(smp))

\* the constant of the Hamiltonian's one-hot squares, which the model has no
\* coefficient for
DroppedConstant == A_bqm * Len(U)

ZeroExactlyWhenConsistent(shift) ==
    SetCoverBuilt =>
        \A smp \in AssignmentsOf(Model, DOMAIN vars) :
            /\ (SetCoverPenalty(smp) + shift = 0) <=> CountsConsistent(smp)
            /\ ~CountsConsistent(smp) => SetCoverPenalty(smp) + shift >= A_bqm
            /\ (SetCoverPenalty(smp) + shift = 0) => Covers(Selected(smp))

\* C11 (as claimed): the energy of the built model less B * sum x is zero
\* exactly at the assignments whose y counts are consistent, at least A at
\* every other assignment, and zero only at covers.
C11_PenaltyZeroExactlyWhenValid == ZeroExactlyWhenConsistent(0)

\* C11 (amended): the same with the constant A * |U| added back to the
\* energy of the built model.
C11_ShiftedPenaltyZeroExactlyWhenValid == ZeroExactlyWhenConsistent(DroppedConstant)

\* a built model with a consistent assignment of shifted penalty 0 and an
\* inconsistent one of shifted penalty exactly A
C11_Witness ==
    /\ SetCoverBuilt
    /\ U = <<1, 2>>
    /\ S = <<{1}, {1, 2}>>
    /\ \E smp \in AssignmentsOf(Model, DOMAIN vars) :
          CountsConsistent(smp) /\ Selected(smp) = {1, 2}
          /\ SetCoverPenalty(smp) + DroppedConstant = 0
    /\ \E smp \in AssignmentsOf(Model, DOMAIN vars) :
          ~CountsConsistent(smp) /\ SetCoverPenalty(smp) + DroppedConstant = A_bqm

\* ---- C12
\* the knapsack part of the combined cell for one item of any cost with one
\* supplier, at most one unit, under any budget
InitTarget ==
    /\ nb = "combined"
    /\ U = <<1>>
    /\ S = <<{1}>>
    /\ W_avg \in {<<c>> : c \in 1..MaxCapacity}
    /\ weight_capacity \in 1..MaxCapacity
    /\ bound = <<1>>
    /\ C = 0
    /\ Blank

NextTarget ==
    \/ RunCombinedCell
    \/ DeclZ
    \/ DeclW
    \/ LinZ
    \/ QuadZZ
    \/ LinW
    \/ QuadWW
    \/ QuadZW

SpecTarget == InitTarget /\ [][NextTarget]_vars_all

\* the assignments of the slack pieces at which the knapsack model is
\* lowest once the purchase quantities are fixed as in az
SlackMinimisers(az) ==
    LET ws == AssignmentsOf(KnapsackModel, WLabels)
        lo == SetMin({Energy(KnapsackModel, az @@ aw) : aw \in ws})
    IN {aw \in ws : Energy(KnapsackModel, az @@ aw) = lo}

\* C12: the slack is a bounded variable of bound B = Wbudget and the cost of
\* the fixed purchase its target T; whenever T is in 0..B, every
\* minimum-energy assignment of the slack pieces decodes to T.
C12_MinimumDecodesToTarget ==
    KnapsackBuilt =>
        \A az \in AssignmentsOf(KnapsackModel, ZLabels) :
            CostOfPlan(az) \in 0..weight_capacity =>
                \A aw \in SlackMinimisers(az) : SlackOf(aw) = CostOfPlan(az)

\* bound 4 and target 3: the minimum decodes to 3
C12_Witness ==
    /\ KnapsackBuilt
    /\ weight_capacity = 4
    /\ W_avg = <<3>>
    /\ \A aw \in SlackMinimisers((ZLabel(0, 0) :> 1)) : SlackOf(aw) = 3
    /\ \E aw \in SlackMinimisers((ZLabel(0, 0) :> 1)) : SlackOf(aw) = 3

\* ---- C14
\* what a faulty solver may hand back: one record whose sample has no value
\* for one of the declared variables
IncompleteSamples ==
    {[l \in DOMAIN vars \ {missing} |-> smp[l]] :
        smp \in SamplePool, missing \in DOMAIN vars}

\* solve_bqm on such a response: energies[0] and response.first.sample are
\* read, then [best_solution[i] for i in x] looks every label of x up in
\* the sample; a label the sample lacks raises KeyError and the call
\* returns nothing, any other missing label goes unnoticed
SolveBqmIncomplete ==
    /\ nb = "setcover"
    /\ pc \in {"built", "solved"}
    /\ \E smp \in IncompleteSamples : \E e \in 0..1 :
          /\ response' = <<smp>>
          /\ IF \E i \in 1..Len(XList) : XList[i] \notin DOMAIN smp
             THEN /\ err' = "KeyError"
                  /\ best_solution' = <<>>
                  /\ best_energy' = 0
             ELSE /\ err' = ""
                  /\ best_solution' = [i \in 1..Len(XList) |-> smp[XList[i]]]
                  /\ best_energy' = e
    /\ pc' = "solved"
    /\ UNCHANGED <<data, bound, w, idx, vars, lin, quad, log, run, prev, enc>>

NextDecode ==
    \/ BuildSetcoverBqm
    \/ SetCoverX
    \/ SetCoverY
    \/ SetCoverXX
    \/ SetCoverYY
    \/ SetCoverXY
    \/ SolveBqmIncomplete

SpecDecode == InitSetCover /\ [][NextDecode]_vars_all

\* the sample solve_bqm decoded lacks a variable the model declared
SampleLacksVariable ==
    /\ pc = "solved"
    /\ response # <<>>
    /\ DOMAIN vars \ DOMAIN response[1] # {}

\* C14: whenever the solver's raw assignment lacks a value for a declared
\* variable, decoding ends in an error and yields no solution.
C14_MissingValueFailsDecode ==
    SampleLacksVariable => (err # "" /\ best_solution = <<>>)

\* a sample without a value for x_1: the lookup fails and nothing is returned
C14_Witness ==
    /\ SampleLacksVariable
    /\ XLabel(1) \notin DOMAIN response[1]
    /\ err = "KeyError"
    /\ best_solution = <<>>

\* ---- C16
\* how far below zero the budgets go
MaxDeficit == 2

\* the head of the combined cell under any budget, zero and negative included
InitDomain ==
    /\ nb = "combined"
    /\ U = <<1>>
    /\ S = <<{1}>>
    /\ W_avg = GroceryCosts(1)
    /\ weight_capacity \in (0 - MaxDeficit)..MaxCapacity
    /\ bound = <<1>>
    /\ C = 0
    /\ Blank

SpecDomain == InitDomain /\ [][NextEnc]_vars_all

\* the cell has computed the slack pieces without an error
PiecesBuilt == run >= 1 /\ err = "" /\ pc = "ks_decl_z"

\* C16: bound 0 yields zero pieces, a negative bound fails with an error,
\* and no piece list ever holds a negative weight.
C16_ZeroBoundNoPieces ==
    /\ (run >= 1 /\ weight_capacity = 0) => (PiecesBuilt /\ Len(w) = 0)
    /\ (run >= 1 /\ weight_capacity < 0) => (err # "" /\ w = <<>>)
    /\ \A k \in 1..Len(w) : w[k] >= 0

\* a negative budget: the cell stops with an error and builds no pieces
C16_Witness ==
    /\ run >= 1
    /\ weight_capacity < 0
    /\ err = "ValueError"
    /\ w = <<>>

\* ---- C18
MaxItems == 12
MaxSuppliers == 12

\* problems of up to MaxItems items and MaxSuppliers suppliers, every
\* supplier stocking every item (the labels depend on the counts only)
InitLabels ==
    /\ nb \in {"setcover", "combined"}
    /\ \E n \in 1..MaxItems : \E m \in 1..MaxSuppliers :
          /\ U = [a \in 1..n |-> a]
          /\ S = [i \in 1..m |-> 1..n]
    /\ IF nb = "combined"
       THEN /\ W_avg = GroceryCosts(Len(U))
            /\ weight_capacity = 3
            /\ bound = [k \in 1..Len(U) |-> 1]
       ELSE /\ W_avg = <<>>
            /\ weight_capacity = 0
            /\ bound = <<>>
    /\ C = 0
    /\ Blank

\* The declaration loops of the two builds in program order.  The loops
\* that only write coefficients between and after them declare nothing and
\* are left out; the last declaration loop of a build ends at "declared".
SetCoverYLast == Loop("sc_y", SetCoverYOps, "declared")
DeclWLast == Loop("ks_decl_w", DeclWOps, "cs_x")
CombYLast == Loop("cs_y", CombYOps, "declared")

NextLabels ==
    \/ BuildSetcoverBqm
    \/ SetCoverX
    \/ SetCoverYLast
    \/ RunCombinedCell
    \/ DeclZ
    \/ DeclWLast
    \/ CombX
    \/ CombYLast

SpecLabels == InitLabels /\ [][NextLabels]_vars_all

\* the add_variable calls made so far, one per modelled quantity
Declarations == SelectSeq(log, IsDeclare)

\* C18: within one compilation no two declarations use the same label: the
\* model holds as many variables as quantities were declared.
C18_LabelsDistinct == Cardinality(DOMAIN vars) = Len(Declarations)

\* a finished combined build with item and supplier indices of two digits
C18_Witness ==
    /\ nb = "combined"
    /\ pc = "declared"
    /\ ZLabel(1, 10) \in DOMAIN vars
    /\ ZLabel(11, 0) \in DOMAIN vars
    /\ XLabel(11) \in DOMAIN vars
    /\ YLabel(12, 1) \in DOMAIN vars
    /\ WLabel(1) \in DOMAIN vars

\* ---- C19
\* the pair (u, v) has a quadratic entry, in either orientation
PairWritten(u, v) == <<u, v>> \in DOMAIN quad \/ <<v, u>> \in DOMAIN quad

\* the stored coefficient of cases (pu, pv) of the pair (u, v); 0 where the
\* entry names no such case pair
PairCoefficient(u, v, pu, pv) ==
    IF <<u, v>> \in DOMAIN quad
    THEN (IF <<pu, pv>> \in DOMAIN quad[<<u, v>>] THEN quad[<<u, v>>][<<pu, pv>>] ELSE 0)
    ELSE (IF <<pv, pu>> \in DOMAIN quad[<<v, u>>] THEN quad[<<v, u>>][<<pv, pu>>] ELSE 0)

\* C19: once the knapsack part is written, every two distinct purchase
\* variables z[k1,s1], z[k2,s2] - two suppliers of one item included - carry
\* the cross coefficient 2 * lagrange * W[k1][s1] * W[k2][s2] * p1 * p2.
C19_AllCostPairsWritten ==
    KnapsackBuilt =>
        \A k1, k2 \in Items : \A s1, s2 \in Suppliers :
            <<k1, s1>> # <<k2, s2>> =>
                /\ PairWritten(ZLabel(k1, s1), ZLabel(k2, s2))
                /\ \A p1 \in 0..(bound[k1 + 1] - 1) : \A p2 \in 0..(bound[k2 + 1] - 1) :
                      PairCoefficient(ZLabel(k1, s1), ZLabel(k2, s2), p1, p2)
                         = 2 * lagrange * Wt(k1, s1) * Wt(k2, s2) * p1 * p2

\* two items and two suppliers: the pair of two different items is written,
\* the pair of two suppliers of the first item is not
C19_Witness ==
    /\ KnapsackBuilt
    /\ Len(U) = 2
    /\ Len(S) = 2
    /\ PairWritten(ZLabel(0, 0), ZLabel(1, 1))
    /\ ~PairWritten(ZLabel(0, 0), ZLabel(0, 1))

\* ---- C20
\* supplier s (from 0) does not stock item k (from 0): W[k][s] is the sentinel
Unavailable(k, s) == U[k + 1] \notin S[s + 1]

CombinedBuilt == nb = "combined" /\ pc = "built"

\* C20: in the finished combined model the sentinel of an unavailable pair
\* is no cost in any budget coefficient - the linear biases of its z hold
\* the objective only and its slack cross terms are zero - and every
\* minimum-energy assignment buys nothing from an unavailable pair.
C20_SentinelIsNoCost ==
    CombinedBuilt =>
        \A k \in Items : \A s \in Suppliers :
            Unavailable(k, s) =>
                /\ \A p \in 0..(bound[k + 1] - 1) :
                      /\ lin[ZLabel(k, s)][p + 1] = HalfUnits * (C - values[k + 1]) * p
                      /\ \A j \in Slacks : PairCoefficient(ZLabel(k, s), WLabel(j), p, 1) = 0
                /\ \A smp \in Minimisers(Model, DOMAIN vars) : smp[ZLabel(k, s)] = 0

\* one item that the only supplier does not stock: the sentinel -1 is
\* squared into the z bias and every minimum-energy assignment buys the item
C20_Witness ==
    /\ CombinedBuilt
    /\ U = <<1>>
    /\ S = <<{}>>
    /\ bound = <<2>>
    /\ lin[ZLabel(0, 0)][2] = lagrange * 1 * 1 + HalfUnits * (C - values[1])
    /\ \A smp \in Minimisers(Model, DOMAIN vars) : smp[ZLabel(0, 0)] = 1

\* ---- C21
\* C21: in the finished combined model every purchase variable z[k,s] has an
\* H3 entry with the selection variable x of supplier s - the first supplier
\* included - whose case (p, 1) holds -C * p, and every minimum-energy
\* assignment buys a positive quantity only from a selected supplier.
C21_EveryPurchaseLinked ==
    CombinedBuilt =>
        /\ \A k \in Items : \A s \in Suppliers :
              /\ PairWritten(ZLabel(k, s), XLabel(s + 1))
              /\ \A p \in 0..(bound[k + 1] - 1) :
                    PairCoefficient(ZLabel(k, s), XLabel(s + 1), p, 1) = HalfUnits * (0 - C) * p
        /\ \A smp \in Minimisers(Model, DOMAIN vars) :
              \A k \in Items : \A s \in Suppliers :
                  smp[ZLabel(k, s)] > 0 => smp[XLabel(s + 1)] = 1

\* two suppliers and a non-zero link weight: the second supplier's purchase
\* variable is linked to its x, the first supplier's is not
C21_Witness ==
    /\ CombinedBuilt
    /\ C = 1
    /\ Len(S) = 2
    /\ PairWritten(ZLabel(0, 1), XLabel(2))
    /\ PairCoefficient(ZLabel(0, 1), XLabel(2), 1, 1) = HalfUnits * (0 - C)
    /\ ~PairWritten(ZLabel(0, 0), XLabel(1))

\* ---- C22
\* C22: in every minimum-energy assignment of the finished combined model
\* the total purchase cost sum W[k][s] * z[k,s] does not exceed the budget.
C22_MinimaWithinBudget ==
    CombinedBuilt =>
        \A smp \in Minimisers(Model, DOMAIN vars) : CostOfPlan(smp) <= weight_capacity

\* items costing 6 and 5 (values 5 and 4) at one supplier, budget 10, at
\* most one unit of each: every minimum-energy assignment buys both for 11
C22_Witness ==
    /\ CombinedBuilt
    /\ U = <<1, 2>>
    /\ S = <<{1, 2}>>
    /\ weight_capacity = 10
    /\ bound = <<2, 2>>
    /\ \A smp \in Minimisers(Model, DOMAIN vars) : CostOfPlan(smp) = 11

\* ---- C23
\* --------------------------------- set_up_bqm / bqm_position (team notebook)
MaxPlayers == 4
MaxValue == 2
MaxVolume == 3

lagrange_multiplier == 500

\* values = list(df1['value_season'])
values_bqm == value_season

\* volumes = [x/x for x in range(1, len(values))]: one 1.0 for each x
volumes == [x \in 1..(Len(values_bqm) - 1) |-> 1]

\* variables = list(range(n))
variables == [v \in 1..Len(values_bqm) |-> v - 1]

\* [(x, v) for x, v in zip(variables, volumes)]: zip stops at the shorter list
terms ==
    [t \in 1..(IF Len(variables) < Len(volumes) THEN Len(variables) ELSE Len(volumes)) |->
       <<variables[t], volumes[t]>>]

\* variables = [bqm.add_variable(v, -values[v]) for v in variables]
PositionVarOps ==
    [n \in 1..Len(variables) |->
       <<BqmAddVariable(variables[n], 0 - values_bqm[variables[n] + 1])>>]

\* bqm.add_linear_equality_constraint(terms, constant=-max_volume,
\* lagrange_multiplier=500) adds lagrange * (sum bias*x + constant)**2: every
\* ordered pair of terms in turn, a term with itself on its linear bias
\* (lagrange * bias * (2*constant + bias)), two different terms on their
\* interaction (lagrange * ubias * vbias); the constant lagrange * constant**2
\* goes to the offset, which shifts every energy alike and is not stored here
ConstraintOps ==
    LET t == Nest2(1, Len(terms), 1, Len(terms))
        constant == 0 - max_volume
    IN [n \in 1..Len(t) |->
          LET u == terms[t[n][1]]
              v == terms[t[n][2]]
          IN IF t[n][1] = t[n][2]
             THEN <<BqmAddVariable(u[1], lagrange_multiplier * u[2] * (2 * constant + u[2]))>>
             ELSE <<AddInteraction(u[1], v[1], lagrange_multiplier * u[2] * v[2])>>]

\* the players of one position (1 to MaxPlayers of them, each with a
\* positive season value) and the number of them the formation asks for
InitPosition ==
    /\ nb = "team"
    /\ U = <<>>
    /\ S = <<>>
    /\ W_avg = <<>>
    /\ weight_capacity = 0
    /\ bound = <<>>
    /\ C = 0
    /\ value_season \in UNION {[1..n -> 1..MaxValue] : n \in 1..MaxPlayers}
    /\ max_volume \in 0..MaxVolume
    /\ BlankRun

\* bqm = BinaryQuadraticModel('BINARY') at the head of bqm_position
BqmPosition ==
    /\ nb = "team"
    /\ pc \in {"idle", "built"}
    /\ run < MaxRuns
    /\ run' = run + 1
    /\ prev' = Model
    /\ vars' = <<>> /\ lin' = <<>> /\ quad' = <<>> /\ log' = <<>>
    /\ pc' = "pos_vars" /\ idx' = 0
    /\ UNCHANGED <<data, bound, w, solved, enc>>

PositionVars == Loop("pos_vars", PositionVarOps, "pos_constraint")
PositionConstraint == Loop("pos_constraint", ConstraintOps, "built")

NextPosition ==
    \/ BqmPosition
    \/ PositionVars
    \/ PositionConstraint

SpecPosition == InitPosition /\ [][NextPosition]_vars_all

PositionBuilt == nb = "team" /\ pc = "built"

\* the selection variables an assignment sets to 1
Picked(smp) == {v \in DOMAIN smp : smp[v] = 1}

\* C23: in the model bqm_position returns every selection variable carries
\* the cardinality penalty - its linear bias is -value + 500 * (1 - 2 *
\* max_volume) and it has an interaction of 2 * 500 with every other
\* variable - and, when there are at least max_volume players, every
\* minimum-energy assignment selects exactly max_volume of them.
C23_ExactlyMaxVolumeSelected ==
    PositionBuilt =>
        /\ \A v \in DOMAIN vars :
              /\ lin[v][2] = (0 - values_bqm[v + 1]) + lagrange_multiplier * (1 - 2 * max_volume)
              /\ \A u \in DOMAIN vars \ {v} :
                    /\ PairWritten(u, v)
                    /\ PairCoefficient(u, v, 1, 1) = 2 * lagrange_multiplier
        /\ max_volume <= Len(values_bqm) =>
              \A smp \in Minimisers(Model, DOMAIN vars) : Cardinality(Picked(smp)) = max_volume

\* three goalkeepers and max_volume 0: the first two are in the constraint,
\* the last one is not, and every minimum-energy assignment selects it
C23_Witness ==
    /\ PositionBuilt
    /\ Len(value_season) = 3
    /\ max_volume = 0
    /\ PairWritten(0, 1)
    /\ ~PairWritten(0, 2)
    /\ lin[2][2] = 0 - values_bqm[3]
    /\ \A smp \in Minimisers(Model, DOMAIN vars) : Picked(smp) = {2}

\* ---- C24
\* the Hamiltonian of the problem definition at an assignment:
\* A * sum_a (1 - sum_m y[a,m])^2 + A * sum_a (sum_m m*y[a,m] - sum_i I[i,a]*x_i)^2
\* + B * sum_i x_i
OneHotGap(smp, a) == 1 - SumTo(Len(S), [m \in 1..Len(S) |-> smp[YLabel(a, m)]])

CountGap(smp, a) ==
    SumTo(Len(S), [m \in 1..Len(S) |-> m * smp[YLabel(a, m)]])
    - SumTo(Len(S), [i \in 1..Len(S) |-> I(i, a) * smp[XLabel(i)]])

Hamiltonian(smp) ==
    A_bqm * SumTo(Len(U), [a \in 1..Len(U) |-> OneHotGap(smp, a) * OneHotGap(smp, a)])
    + A_bqm * SumTo(Len(U), [a \in 1..Len(U) |-> CountGap(smp, a) * CountGap(smp, a)])
    + B_bqm * SumTo(Len(S), [i \in 1..Len(S) |-> smp[XLabel(i)]])

\* the assignments at which the Hamiltonian is lowest
HamiltonianMinimisers ==
    LET as == AssignmentsOf(Model, DOMAIN vars)
        lo == SetMin({Hamiltonian(a) : a \in as})
    IN {a \in as : Hamiltonian(a) = lo}

\* C24: at every binary assignment of x and y the Hamiltonian exceeds the
\* energy of the built set-cover model by the same constant A * |U|, and the
\* two have the same minimisers.
C24_ModelIsHamiltonianLessConstant ==
    SetCoverBuilt =>
        /\ \A smp \in AssignmentsOf(Model, DOMAIN vars) :
              Hamiltonian(smp) - Energy(Model, smp) = A_bqm * Len(U)
        /\ HamiltonianMinimisers = Minimisers(Model, DOMAIN vars)

\* two items and two sets: at the all-ones assignment the Hamiltonian is
\* positive, the model's energy is 4 = A * |U| lower
C24_Witness ==
    /\ SetCoverBuilt
    /\ U = <<1, 2>>
    /\ S = <<{1}, {1, 2}>>
    /\ LET ones == [l \in DOMAIN vars |-> 1]
       IN /\ Hamiltonian(ones) > 0
          /\ Energy(Model, ones) = Hamiltonian(ones) - 4

\* ---- C25
\* the calls of the current run that write the linear biases of label l
LinWritesTo(l) == SelectSeq(log, LAMBDA o : IsLinWrite(o) /\ o.u = l)

\* the calls of the current run that write the unordered pair {u, v}
QuadWritesTo(u, v) ==
    SelectSeq(log, LAMBDA o : IsQuadWrite(o) /\ ((o.u = u /\ o.v = v) \/ (o.u = v /\ o.v = u)))

\* C25: during one compilation every linear key and every unordered
\* quadratic pair is written at most once, and the stored coefficients
\* (overwriting writes) equal the sums of the written ones (accumulating
\* writes), whatever the penalty weights.
C25_EachKeyWrittenOnce ==
    /\ \A l \in DOMAIN lin : Len(LinWritesTo(l)) <= 1
    /\ \A k \in DOMAIN quad : Len(QuadWritesTo(k[1], k[2])) <= 1
    /\ \A l \in DOMAIN lin : \A q \in 1..Len(lin[l]) : lin[l][q] = LinContrib(log, l, q)
    /\ \A k \in DOMAIN quad : \A cp \in DOMAIN quad[k] :
          quad[k][cp] = QuadContrib(log, k[1], k[2], cp)

\* a finished combined build with two slack pieces and a non-zero H3
\* weight: the pair (z0,1, x_2) was written once for each slack piece and
\* holds -C, not the sum -2C
C25_Witness ==
    /\ CombinedBuilt
    /\ C = 1
    /\ Len(w) = 2
    /\ Len(S) = 2
    /\ bound[1] = 2
    /\ Len(QuadWritesTo(ZLabel(0, 1), XLabel(2))) = 2
    /\ PairCoefficient(ZLabel(0, 1), XLabel(2), 1, 1) = HalfUnits * (0 - C)
    /\ QuadContrib(log, ZLabel(0, 1), XLabel(2), <<1, 1>>) = 2 * HalfUnits * (0 - C)

\* ---- C26
\* the position in the log of the first quadratic write of the current run,
\* one past the end if there is none yet
FirstQuadWrite ==
    CHOOSE i \in 1..(Len(log) + 1) :
        /\ i = Len(log) + 1 \/ IsQuadWrite(log[i])
        /\ \A j \in 1..(i - 1) : ~IsQuadWrite(log[j])

\* C26: within one compilation no variable is declared after the first
\* quadratic coefficient has been written.
C26_DeclaredBeforePenalties ==
    \A j \in FirstQuadWrite..Len(log) : ~IsDeclare(log[j])

\* the combined cell declares x_1 after the knapsack part has written the
\* pair (w0, w1)
C26_Witness ==
    /\ nb = "combined"
    /\ pc = "cs_x"
    /\ idx = 1
    /\ log[FirstQuadWrite].u = WLabel(0)
    /\ log[FirstQuadWrite].v = WLabel(1)
    /\ log[Len(log) - 1] = DqmAddVariable(2, XLabel(1))

\* ---- C27
\* the quadratic writes of the current run
QuadWrites == SelectSeq(log, IsQuadWrite)

\* the squared self-term of every piece is in its linear coefficient: A *
\* I^2 summed over the items for x and A * m^2 (less the one-hot A) for y in
\* the set-cover build, lagrange * (W * p)^2 for z and lagrange * w^2 for
\* the slack pieces in the combined build
SelfTermsLinear ==
    /\ SetCoverBuilt =>
          /\ \A i \in 1..Len(S) : lin[XLabel(i)][2] = A_bqm * SumI(i) + B_bqm
          /\ \A a \in 1..Len(U) : \A m \in 1..Len(S) :
                lin[YLabel(a, m)][2] = A_bqm * m * m - A_bqm
    /\ CombinedBuilt =>
          /\ \A k \in Items : \A s \in Suppliers : \A p \in 0..(bound[k + 1] - 1) :
                lin[ZLabel(k, s)][p + 1] =
                    lagrange * (Wt(k, s) * p) * (Wt(k, s) * p) + HalfUnits * (C - values[k + 1]) * p
          /\ \A j \in Slacks : lin[WLabel(j)][2] = lagrange * w[j + 1] * w[j + 1]

\* C27: no model holds a quadratic coefficient on a pair (v, v): every
\* quadratic write of the set-cover and combined builds is between two
\* distinct variables, and the squared self-term of each piece is carried
\* by that piece's linear coefficient.
C27_NoSelfPair ==
    /\ \A k \in DOMAIN quad : k[1] # k[2]
    /\ \A n \in 1..Len(QuadWrites) : QuadWrites[n].u # QuadWrites[n].v
    /\ SelfTermsLinear

\* a finished combined build with slack pieces 1 and 2: the square of the
\* second piece, 4 * lagrange, is its linear coefficient
C27_Witness ==
    /\ CombinedBuilt
    /\ w = <<1, 2>>
    /\ Len(QuadWrites) > 0
    /\ PairWritten(WLabel(0), WLabel(1))
    /\ lin[WLabel(1)][2] = 4 * lagrange

\* ---- C28
\* the ordered keys the quadratic writes of the current run have named
WrittenKeys ==
    LET qw == QuadWrites
    IN {<<qw[n].u, qw[n].v>> : n \in 1..Len(qw)}

\* C28: at every point of a compilation no unordered pair of variables has
\* two quadratic entries, and the build has not written a coefficient for
\* both (u, v) and (v, u).
C28_OneEntryPerPair ==
    LET keys == WrittenKeys
    IN /\ \A k \in DOMAIN quad : <<k[2], k[1]>> \notin DOMAIN quad
       /\ \A k \in keys : <<k[2], k[1]>> \notin keys

\* a finished set-cover build over two sets: (x_1, x_2) is written and
\* stored, (x_2, x_1) is neither
C28_Witness ==
    /\ SetCoverBuilt
    /\ Len(S) = 2
    /\ <<XLabel(1), XLabel(2)>> \in WrittenKeys
    /\ <<XLabel(1), XLabel(2)>> \in DOMAIN quad
    /\ <<XLabel(2), XLabel(1)>> \notin WrittenKeys

\* ---- C29
\* capacities up to which every list of fewer pieces is tried
SearchCapacity == 8

\* the least c with 2**c >= n
RECURSIVE CeilLog2(_)
CeilLog2(n) == IF n <= 1 THEN 0 ELSE 1 + CeilLog2((n + 1) \div 2)

\* some list of j pieces with integer weights in -B..B has every value of
\* 0..B among its sums
SpannedBy(j, B) ==
    \E ws \in [1..j -> (0 - B)..B] :
        (0..B) \subseteq {SlackValue(ws, bits) : bits \in [1..j -> 0..1]}

\* C29: for every bound B >= 1 the encoding has floor(log2(B)) + 1 pieces,
\* which is ceil(log2(B + 1)); one piece fewer has at most B assignments,
\* too few for the B + 1 values 0..B, and (for B up to SearchCapacity) no
\* list of fewer pieces with weights in -B..B represents all of 0..B.
C29_PieceCountMinimal ==
    w # <<>> =>
        /\ Len(w) = FloorLog2(weight_capacity) + 1
        /\ Len(w) = CeilLog2(weight_capacity + 1)
        /\ Pow2(Len(w) - 1) < weight_capacity + 1
        /\ weight_capacity <= SearchCapacity =>
              \A j \in 0..(Len(w) - 1) : ~SpannedBy(j, weight_capacity)

\* bound 8: four pieces 1, 2, 4, 1, where three pieces have only 8
\* assignments for the 9 values
C29_Witness ==
    /\ weight_capacity = 8
    /\ w = <<1, 2, 4, 1>>
    /\ CeilLog2(9) = 4
    /\ ~SpannedBy(3, 8)
    /\ decoded = 8

\* ---- C30
\* C30: solve_bqm does not change the model it is given: every step that
\* ends a solve leaves the variables and the linear and quadratic
\* coefficient maps as they were, so a second solve of the same model
\* meets the same coefficients.
C30_SolveLeavesModel ==
    [][pc' = "solved" => (vars' = vars /\ lin' = lin /\ quad' = quad)]_vars_all

\* a solved set-cover model over two sets and two items that still holds
\* exactly the coefficients its build calls wrote
C30_Witness ==
    /\ nb = "setcover"
    /\ pc = "solved"
    /\ Len(S) = 2
    /\ Len(U) = 2
    /\ Len(response) = 2
    /\ quad # <<>>
    /\ Model = ApplyAll(EmptyModel, log)

====
